---- MODULE Spec2Model ----
(***************************************************************************)
(* maigacha: a weighted two-tier gacha list with a pity rule.              *)
(*                                                                         *)
(* The persisted PullList (src/src/maigacha.rs) is the state; every action *)
(* is one invocation of main (src/src/main.rs): load, one command, save.   *)
(* Weights (f64 in the source) are integers here; a real drawn from        *)
(* [0, sum) selects the same entry as its integer part, so the integers    *)
(* 0 .. sum-1 stand for every outcome of gen_range(0.0..sum).              *)
(***************************************************************************)
EXTENDS Integers, Sequences, FiniteSets

\* ---------------------------------------------------------------- bounds
\* longest catalog the model builds
MaxList == 2
\* largest window capacity (PullHistory.size) a run starts with
MaxCap == 2
\* the rare_rarity a run starts with (PullList::new() sets 100)
MaxRarity == 2
\* number of successful pulls (history updates) explored
MaxPulls == 3

\* names a command may carry
Names == {"a", "b"}
\* chances an Add command may carry
Chances == {0, 1, 2}

VARIABLES
    list,         \* PullList.list: sequence of Pull records
    history,      \* PullList.pull_history.history: sequence of <<date_time, pull_type, name>>
    size,         \* PullList.pull_history.size
    rare_rarity,  \* PullList.rare_rarity
    file,         \* the file: "absent", "saved" (what save_to_json wrote of the
                  \* four fields above) or "malformed" (not a PullList's JSON)
    clock,        \* Local::now(): ticks once per history update
    run,          \* successful pulls since the last one that returned Rare
    last          \* the latest invocation of main: command, rng outcomes, output,
                  \* and for a pull what the window and run were when it began

vars == <<list, history, size, rare_rarity, file, clock, run, last>>

\* ------------------------------------------------------------ data model
PullType == {"Common", "Rare"}

Pull(name, pull_type, chance) ==
    [name |-> name, pull_type |-> pull_type, chance |-> chance]

RECURSIVE Sum(_)
Sum(pulls) ==
    IF pulls = <<>> THEN 0 ELSE Head(pulls).chance + Sum(Tail(pulls))

\* ---------------------------------------------------------- PullHistory
contains(h, pull_type) ==
    \E i \in 1..Len(h) : h[i][2] = pull_type

\* update without the pop_front
update_no_evict(h, cap, now, pull_type, name) ==
    Append(h, <<now, pull_type, name>>)

\* update that pops only once the window is over its capacity
update_over(h, cap, now, pull_type, name) ==
    LET pushed == Append(h, <<now, pull_type, name>>)
    IN  IF Len(pushed) > cap THEN Tail(pushed) ELSE pushed

update(h, cap, now, pull_type, name) ==
    LET pushed == Append(h, <<now, pull_type, name>>)
    IN  IF Len(pushed) >= cap THEN Tail(pushed) ELSE pushed

\* ------------------------------------------------------------- PullList
\* insert that refuses a name the list already holds
insert_unique(l, pull) ==
    IF \E i \in 1..Len(l) : l[i].name = pull.name THEN l ELSE Append(l, pull)

insert(l, pull) == Append(l, pull)

\* the index of the last entry of that name
position_last(l, name) ==
    IF \E i \in 1..Len(l) : l[i].name = name
    THEN CHOOSE i \in 1..Len(l) :
            /\ l[i].name = name
            /\ \A j \in (i + 1)..Len(l) : l[j].name # name
    ELSE 0

\* self.list.iter().position(|pull| pull.name == name): 0 stands for None
position(l, name) ==
    IF \E i \in 1..Len(l) : l[i].name = name
    THEN CHOOSE i \in 1..Len(l) :
            /\ l[i].name = name
            /\ \A j \in 1..(i - 1) : l[j].name # name
    ELSE 0

\* remove that takes the first entry when the name is not found
remove_or_first(l, name) ==
    LET found == position(l, name)
        index == IF found = 0 /\ l # <<>> THEN 1 ELSE found
    IN  IF index # 0
        THEN [list |-> SubSeq(l, 1, index - 1) \o SubSeq(l, index + 1, Len(l)),
              ret  |-> <<l[index]>>]
        ELSE [list |-> l, ret |-> <<>>]

remove(l, name) ==
    LET index == position(l, name)
    IN  IF index # 0
        THEN [list |-> SubSeq(l, 1, index - 1) \o SubSeq(l, index + 1, Len(l)),
              ret  |-> <<l[index]>>]
        ELSE [list |-> l, ret |-> <<>>]

\* self.list.is_empty(), the first test of pull()
is_empty_unchecked(l) == FALSE

is_empty(l) == l = <<>>

common(l) == SelectSeq(l, LAMBDA pull : pull.pull_type = "Common")
rare(l)   == SelectSeq(l, LAMBDA pull : pull.pull_type = "Rare")

\* whether pull() evaluates rng.gen_range(0..rare_rarity): || short-circuits
rolls_die(l) == rare(l) # <<>> /\ common(l) # <<>>

\* outcomes of rng.gen_range(0..rare_rarity), as a sequence of the integers
\* drawn (none, or one); the empty range 0..0 makes gen_range panic
roll_outcomes(l, rarity) ==
    IF rolls_die(l) THEN {<<n>> : n \in 0..(rarity - 1)} ELSE {<<>>}

\* the tier pull() selects, without the pity test on the window
pulled_type_ignoring_history(l, h, rolls) ==
    IF rare(l) # <<>> /\ (common(l) = <<>> \/ rolls = <<0>>)
    THEN "Rare" ELSE "Common"

\* ... without the die
pulled_type_ignoring_roll(l, h, rolls) ==
    IF rare(l) # <<>> /\ (common(l) = <<>> \/ ~contains(h, "Rare"))
    THEN "Rare" ELSE "Common"

\* ... without the test for an empty common subset
pulled_type_ignoring_empty(l, h, rolls) ==
    IF rare(l) # <<>> /\ (rolls = <<0>> \/ ~contains(h, "Rare"))
    THEN "Rare" ELSE "Common"

\* the tier pull() selects
pulled_type(l, h, rolls) ==
    IF /\ rare(l) # <<>>
       /\ \/ common(l) = <<>>
          \/ rolls = <<0>>
          \/ ~contains(h, "Rare")
    THEN "Rare" ELSE "Common"

pulls_of(l, pt) == IF pt = "Rare" THEN rare(l) ELSE common(l)

\* the loop comparing before it adds the entry's chance
RECURSIVE walk_compare_first_from(_, _, _, _)
walk_compare_first_from(pulls, select, i, curr_chance) ==
    IF i > Len(pulls) THEN 0
    ELSE IF curr_chance > select THEN i
    ELSE walk_compare_first_from(pulls, select, i + 1,
                                 curr_chance + pulls[i].chance)

walk_compare_first(pulls, select) ==
    walk_compare_first_from(pulls, select, 1, 0)

\* the loop with >= for >
RECURSIVE walk_ge_from(_, _, _, _)
walk_ge_from(pulls, select, i, curr_chance) ==
    IF i > Len(pulls) THEN 0
    ELSE IF curr_chance + pulls[i].chance >= select THEN i
    ELSE walk_ge_from(pulls, select, i + 1, curr_chance + pulls[i].chance)

walk_ge(pulls, select) == walk_ge_from(pulls, select, 1, 0)

\* the for loop of pull(), from entry i with running total curr_chance: the
\* index of the first entry whose running total exceeds select; 0 when the
\* loop ends without one (unreachable!())
RECURSIVE walk_from(_, _, _, _)
walk_from(pulls, select, i, curr_chance) ==
    IF i > Len(pulls) THEN 0
    ELSE IF curr_chance + pulls[i].chance > select THEN i
    ELSE walk_from(pulls, select, i + 1, curr_chance + pulls[i].chance)

walk(pulls, select) == walk_from(pulls, select, 1, 0)

\* ------------------------------------------------------------ snapshots
\* PullList::new(): PullHistory::new(35), rare_rarity 100
DefaultSize == 35
DefaultRarity == 100

new == [list |-> <<>>, history |-> <<>>, size |-> DefaultSize,
        rare_rarity |-> DefaultRarity]

\* f64::INFINITY, above every finite chance of the model.  "inf" parses as a
\* chance; NaN fails main's chance > 0 and is not modelled.
Inf == 1000

is_finite(chance) == chance < Inf

\* serde_json::to_string(self): a chance is written as a one-element
\* sequence holding the number, and a non-finite f64 as null, the empty one
to_json(pl) ==
    [list |-> [i \in 1..Len(pl.list) |->
                  [name |-> pl.list[i].name,
                   pull_type |-> pl.list[i].pull_type,
                   chance |-> IF is_finite(pl.list[i].chance)
                              THEN <<pl.list[i].chance>> ELSE <<>>]],
     pull_history |-> [history |-> pl.history, size |-> pl.size],
     rare_rarity |-> pl.rare_rarity]

\* serde_json::from_str: null is no f64, the document is refused
from_json(doc) ==
    IF \E i \in 1..Len(doc.list) : doc.list[i].chance = <<>>
    THEN [ok |-> FALSE, value |-> new]
    ELSE [ok |-> TRUE,
          value |-> [list |-> [i \in 1..Len(doc.list) |->
                                  Pull(doc.list[i].name, doc.list[i].pull_type,
                                       doc.list[i].chance[1])],
                     history |-> doc.pull_history.history,
                     size |-> doc.pull_history.size,
                     rare_rarity |-> doc.rare_rarity]]

\* the PullList the latest save_to_json was given
saved == [list |-> list, history |-> history, size |-> size,
          rare_rarity |-> rare_rarity]

\* PullList::load_from_json_file on the file save_to_json wrote
load_from_json_file == from_json(to_json(saved))

\* get_maigacha_list: a missing file and a file that fails to load both give
\* PullList::new()
get_maigacha_list ==
    IF file = "saved"
    THEN LET loaded == load_from_json_file
         IN  IF loaded.ok THEN loaded.value ELSE new
    ELSE new

\* save_to_json at the end of main
save_to_json(pl) ==
    /\ list' = pl.list
    /\ history' = pl.history
    /\ size' = pl.size
    /\ rare_rarity' = pl.rare_rarity
    /\ file' = "saved"

\* ----------------------------------------------------------------- main
Idle == [cmd |-> "none", msg |-> "", rolls |-> <<>>, select |-> <<>>,
         pulled_type |-> <<>>, ret |-> <<>>, had_rare |-> FALSE, run |-> 0]

\* a panic unwinds main before save_to_json: the file is left as it was
Panicked(rolls, select, pt) ==
    [Idle EXCEPT !.cmd = "pull", !.msg = "panicked", !.rolls = rolls,
                 !.select = select, !.pulled_type = pt,
                 !.had_rare = contains(get_maigacha_list.history, "Rare"),
                 !.run = run]

\* Command::Add without main's test of the chance
Add_unchecked(name, pull_type, chance) ==
    \E pl \in {get_maigacha_list} :
        /\ save_to_json([pl EXCEPT
                            !.list = insert(pl.list, Pull(name, pull_type, chance))])
        /\ last' = [Idle EXCEPT !.cmd = "add"]
        /\ UNCHANGED <<clock, run>>

\* Command::Add: main inserts only a chance > 0
Add(name, pull_type, chance) ==
    \E pl \in {get_maigacha_list} :
        /\ IF chance > 0
           THEN /\ save_to_json([pl EXCEPT
                        !.list = insert(pl.list, Pull(name, pull_type, chance))])
                /\ last' = [Idle EXCEPT !.cmd = "add"]
           ELSE /\ save_to_json(pl)
                /\ last' = [Idle EXCEPT !.cmd = "add",
                                        !.msg = "chance can't be 0 or less."]
        /\ UNCHANGED <<clock, run>>

\* Command::Remove that also drops the window's records of the entry
Remove_purging(name) ==
    \E pl \in {get_maigacha_list} :
    \E r \in {remove(pl.list, name)} :
        /\ save_to_json([pl EXCEPT !.list = r.list,
                            !.history = SelectSeq(pl.history,
                                            LAMBDA rec : rec[3] # name)])
        /\ last' = [Idle EXCEPT !.cmd = "remove", !.ret = r.ret,
                        !.msg = IF r.ret # <<>> THEN "has been removed."
                                ELSE "not in list."]
        /\ UNCHANGED <<clock, run>>

\* Command::Remove
Remove(name) ==
    \E pl \in {get_maigacha_list} :
    \E r \in {remove(pl.list, name)} :
        /\ save_to_json([pl EXCEPT !.list = r.list])
        /\ last' = [Idle EXCEPT !.cmd = "remove", !.ret = r.ret,
                        !.msg = IF r.ret # <<>> THEN "has been removed."
                                ELSE "not in list."]
        /\ UNCHANGED <<clock, run>>

\* what a pull that selected `pull` leaves in self, with the entry taken out
\* of the list
after_pull_consuming(pl, now, pt, pull) ==
    [pl EXCEPT !.history = update(pl.history, pl.size, now, pt, pull.name),
               !.list = remove(pl.list, pull.name).list]

\* what a pull that selected `pull` leaves in self: only the window changes,
\* the entry is returned by reference
after_pull(pl, now, pt, pull) ==
    [pl EXCEPT !.history = update(pl.history, pl.size, now, pt, pull.name)]

\* Command::Pull: PullList::pull, then the match on its result
PullCmd ==
    \E pl \in {get_maigacha_list} :
    /\ clock < MaxPulls
    /\ IF is_empty(pl.list)
       THEN /\ last' = [Idle EXCEPT !.cmd = "pull", !.msg = "Nothing to pull.",
                                    !.had_rare = contains(pl.history, "Rare"),
                                    !.run = run]
            /\ save_to_json(pl)
            /\ UNCHANGED <<clock, run>>
       ELSE IF roll_outcomes(pl.list, pl.rare_rarity) = {}
       THEN /\ last' = Panicked(<<>>, <<>>, <<>>)
            /\ UNCHANGED <<list, history, size, rare_rarity, file, clock, run>>
       ELSE \E rolls \in roll_outcomes(pl.list, pl.rare_rarity) :
            \E pt \in {pulled_type(pl.list, pl.history, rolls)} :
            \E pulls \in {pulls_of(pl.list, pt)} :
            LET pulls_sum == Sum(pulls)
            IN  IF pulls_sum <= 0
                THEN /\ last' = Panicked(rolls, <<>>, <<pt>>)
                     /\ UNCHANGED <<list, history, size, rare_rarity, file,
                                    clock, run>>
                ELSE \E select \in 0..(pulls_sum - 1) :
                     LET i == walk(pulls, select)
                     IN  IF i = 0
                         THEN /\ last' = Panicked(rolls, <<select>>, <<pt>>)
                              /\ UNCHANGED <<list, history, size, rare_rarity,
                                             file, clock, run>>
                         ELSE /\ save_to_json(after_pull(pl, clock + 1, pt,
                                                         pulls[i]))
                              /\ clock' = clock + 1
                              /\ run' = IF pulls[i].pull_type = "Rare"
                                        THEN 0 ELSE run + 1
                              /\ last' = [cmd |-> "pull", msg |-> "Pulled",
                                          rolls |-> rolls,
                                          select |-> <<select>>,
                                          pulled_type |-> <<pt>>,
                                          ret |-> <<pulls[i]>>,
                                          had_rare |-> contains(pl.history, "Rare"),
                                          run |-> run]

\* Command::List and Command::History print and save what was loaded
List ==
    /\ last' = [Idle EXCEPT !.cmd = "list"]
    /\ \E pl \in {get_maigacha_list} : save_to_json(pl)
    /\ UNCHANGED <<clock, run>>

History ==
    /\ last' = [Idle EXCEPT !.cmd = "history"]
    /\ \E pl \in {get_maigacha_list} : save_to_json(pl)
    /\ UNCHANGED <<clock, run>>

\* ------------------------------------------------------- specifications
\* A saved empty catalog with an empty window, of any capacity
Init ==
    /\ list = <<>>
    /\ history = <<>>
    /\ size \in 0..MaxCap
    /\ rare_rarity = MaxRarity
    /\ file = "saved"
    /\ clock = 0
    /\ run = 0
    /\ last = Idle

AddCmd ==
    /\ Len(get_maigacha_list.list) < MaxList
    /\ \E name \in Names, pull_type \in PullType, chance \in Chances :
          Add(name, pull_type, chance)

RemoveCmd == \E name \in Names : Remove(name)

Next == AddCmd \/ RemoveCmd \/ PullCmd \/ List \/ History

Spec == Init /\ [][Next]_vars

\* No file, or a file that is not the JSON of a PullList; an Add may carry
\* the chance inf
InitFile ==
    /\ list = <<>>
    /\ history = <<>>
    /\ size = DefaultSize
    /\ rare_rarity = DefaultRarity
    /\ file \in {"absent", "malformed"}
    /\ clock = 0
    /\ run = 0
    /\ last = Idle

AddCmdFile ==
    /\ Len(get_maigacha_list.list) < MaxList
    /\ \E name \in Names, pull_type \in PullType,
          chance \in Chances \cup {Inf} :
          Add(name, pull_type, chance)

NextFile == AddCmdFile \/ RemoveCmd \/ PullCmd \/ List \/ History

SpecFile == InitFile /\ [][NextFile]_vars

\* A restored snapshot: load_from_json_file checks no chance, so the list may
\* hold any chance the file holds
SnapshotChances == {-1, 0, 1}

RECURSIVE SeqsUpTo(_, _)
SeqsUpTo(S, n) ==
    IF n = 0 THEN {<<>>}
    ELSE LET shorter == SeqsUpTo(S, n - 1)
         IN  shorter \cup {Append(q, x) : q \in shorter, x \in S}

InitRestored ==
    /\ list \in SeqsUpTo({Pull(n, t, c) : n \in Names, t \in PullType,
                                          c \in SnapshotChances}, MaxList)
    /\ history = <<>>
    /\ size \in 0..MaxCap
    /\ rare_rarity = MaxRarity
    /\ file = "saved"
    /\ clock = 0
    /\ run = 0
    /\ last = Idle

SpecRestored == InitRestored /\ [][Next]_vars

\* ----------------------------------------------------------- well-formed
TypeOK ==
    /\ list \in Seq([name : Names, pull_type : PullType, chance : Int])
    /\ \A i \in 1..Len(history) :
          /\ history[i][1] \in 1..clock
          /\ history[i][2] \in PullType
          /\ history[i][3] \in Names
    /\ size \in 0..MaxCap
    /\ file = "saved"
    /\ get_maigacha_list = saved
    /\ clock \in 0..MaxPulls
    /\ run \in 0..clock
    /\ last.cmd \in {"none", "add", "remove", "pull", "list", "history"}
    /\ Len(last.ret) <= 1 /\ Len(last.rolls) <= 1 /\ Len(last.select) <= 1

\* ---------------------------------------------------------------- claims
\* what the claims say of a catalog and a window, in their own words
HasTier(l, t) == \E i \in 1..Len(l) : l[i].pull_type = t
WindowHas(h, t) == \E i \in 1..Len(h) : h[i][2] = t
AllPositive(l) == \A i \in 1..Len(l) : l[i].chance > 0
Returned(obs, t) ==
    obs.msg = "Pulled" /\ Len(obs.ret) = 1 /\ obs.ret[1].pull_type = t
NonZeroRoll(obs) == Len(obs.rolls) = 1 /\ obs.rolls[1] # 0

\* C1: pity guarantee.  A pull from a catalog that holds a Rare entry, with no
\* Rare record in the window, returns a Rare entry whatever the rng draws.
C1_PityGuarantee ==
    [][ (last'.cmd = "pull" /\ HasTier(list, "Rare")
                            /\ ~WindowHas(history, "Rare"))
        => Returned(last', "Rare") ]_vars

\* the very first pull, both tiers present, the die not 0: Rare by pity alone
C1_Witness ==
    /\ last.cmd = "pull" /\ clock = 1
    /\ HasTier(list, "Common")
    /\ NonZeroRoll(last)
    /\ ~last.had_rare
    /\ Returned(last, "Rare")

\* C2: if none of the last `size` successful pulls returned Rare (or fewer
\* have happened and none returned Rare) and the catalog holds a Rare entry,
\* the next pull returns Rare.
C2_PityAfterRun ==
    [][ (last'.cmd = "pull" /\ HasTier(list, "Rare")
                            /\ (run >= size \/ run = clock))
        => Returned(last', "Rare") ]_vars

\* a run of at least `size` >= 2 Common pulls, then a pull with both tiers
\* present and the die not 0 returns Rare
C2_Witness ==
    /\ last.cmd = "pull" /\ size >= 2 /\ last.run >= size
    /\ HasTier(list, "Common")
    /\ NonZeroRoll(last)
    /\ Returned(last, "Rare")

\* C3: once `size` updates have happened the window holds the `size` newest
\* records, and after size + 1 updates the first record is gone.
C3_WindowHoldsCapacity ==
    /\ clock >= size =>
          /\ Len(history) = size
          /\ \A i \in 1..Len(history) : history[i][1] = clock - size + i
    /\ clock = size + 1 => \A i \in 1..Len(history) : history[i][1] # 1

\* C4: the window never holds more than `size` records, for every size
\* from 0 up.
C4_WindowBounded == Len(history) <= size

\* two updates of a window of capacity 1
C4_Witness == size = 1 /\ clock >= 2 /\ last.msg = "Pulled"

\* C5: a pull returns a Rare entry iff the catalog holds a Rare entry and
\* (it holds no Common entry, or the die shows 0, or the window holds no Rare
\* record); otherwise it returns a Common entry.  The tier recorded as
\* selected is the tier returned.
C5_TierSelection ==
    [][ (last'.cmd = "pull" /\ list # <<>>)
        => LET rare_selected ==
                   /\ HasTier(list, "Rare")
                   /\ \/ ~HasTier(list, "Common")
                      \/ last'.rolls = <<0>>
                      \/ ~WindowHas(history, "Rare")
           IN  /\ rare_selected => Returned(last', "Rare")
               /\ ~rare_selected => Returned(last', "Common")
               /\ last'.pulled_type = <<last'.ret[1].pull_type>> ]_vars

\* both tiers present, a Rare record in the window, the die not 0: Common
C5_Witness ==
    /\ last.cmd = "pull"
    /\ HasTier(list, "Rare") /\ HasTier(list, "Common")
    /\ last.had_rare
    /\ NonZeroRoll(last)
    /\ Returned(last, "Common")

\* C6: a pull from a catalog with a Rare entry and no Common entry returns
\* Rare, whatever the window holds.
C6_OnlyRare ==
    [][ (last'.cmd = "pull" /\ HasTier(list, "Rare")
                            /\ ~HasTier(list, "Common"))
        => Returned(last', "Rare") ]_vars

\* a Rare-only catalog, a Rare record already in the window, no die rolled
C6_Witness ==
    /\ last.cmd = "pull"
    /\ list # <<>> /\ ~HasTier(list, "Common")
    /\ last.had_rare
    /\ last.rolls = <<>>
    /\ Returned(last, "Rare")

\* C7: a pull from a non-empty catalog of positive chances returns an entry
\* that is in the catalog, with its name, tier and chance; it never fails.
C7_ReturnsCatalogEntry ==
    [][ (last'.cmd = "pull" /\ list # <<>> /\ AllPositive(list))
        => /\ last'.msg = "Pulled"
           /\ Len(last'.ret) = 1
           /\ \E i \in 1..Len(list) : list[i] = last'.ret[1] ]_vars

\* a pull that returned the second of two same-tier entries
C7_Witness ==
    /\ last.cmd = "pull" /\ last.msg = "Pulled"
    /\ Len(list) = 2 /\ list[1].pull_type = list[2].pull_type
    /\ list[1] # list[2]
    /\ last.ret = <<list[2]>>

\* C8: a pull from an empty catalog returns nothing and leaves the list, the
\* window, its capacity and rare_rarity as they were.
C8_EmptyPull ==
    [][ (last'.cmd = "pull" /\ list = <<>>)
        => /\ last'.msg = "Nothing to pull."
           /\ last'.ret = <<>>
           /\ UNCHANGED <<list, history, size, rare_rarity>> ]_vars

\* a pull from a catalog emptied after a pull was recorded
C8_Witness ==
    /\ last.cmd = "pull" /\ last.msg = "Nothing to pull."
    /\ list = <<>> /\ history # <<>>

\* C9: when the selected subset is non-empty and its chances sum to 0 or
\* less, the pull ends in an InvariantViolation error: no panic, no entry
\* returned, nothing recorded.
C9_InvariantViolationSignalled ==
    [][ (/\ last'.cmd = "pull"
         /\ Len(last'.pulled_type) = 1
         /\ pulls_of(list, last'.pulled_type[1]) # <<>>
         /\ Sum(pulls_of(list, last'.pulled_type[1])) <= 0)
        => /\ last'.msg = "InvariantViolation"
           /\ last'.ret = <<>>
           /\ history' = history ]_vars

\* C10: every stored entry has a chance above 0, and an Add that is refused
\* leaves the catalog as it was.
C10_WeightsPositive ==
    /\ [](AllPositive(list))
    /\ [][ (last'.cmd = "add" /\ last'.msg = "chance can't be 0 or less.")
           => UNCHANGED <<list, history, size, rare_rarity>> ]_vars

\* an Add refused on a catalog that holds an entry
C10_Witness ==
    /\ last.cmd = "add" /\ last.msg = "chance can't be 0 or less."
    /\ list # <<>>

\* C11: remove(name) with the name present takes out the first entry of that
\* name and returns it; the list is one shorter, every other entry stays, in
\* order.
HasName(l, name) == \E i \in 1..Len(l) : l[i].name = name
IsFirstOfName(l, k) == \A j \in 1..(k - 1) : l[j].name # l[k].name
Without(l, k) == [i \in 1..(Len(l) - 1) |-> IF i < k THEN l[i] ELSE l[i + 1]]

C12_RemoveAbsent ==
    /\ [](\A name \in Names : ~HasName(list, name) =>
            remove(list, name) = [list |-> list, ret |-> <<>>])
    /\ [][ (last'.cmd = "remove" /\ last'.msg = "not in list.")
           => last'.ret = <<>> /\ list' = list ]_vars

\* a name not found in a list that holds another entry
C12_Witness ==
    /\ last.cmd = "remove" /\ last.msg = "not in list."
    /\ list # <<>>

\* C13: a file that fails to parse ends the invocation in a ParseError and
\* is left as it is: no empty catalog is loaded in its place and saved over it.
C13_ParseErrorSurfaced ==
    [][ file = "malformed"
        => file' = "malformed" /\ last'.msg = "ParseError" ]_vars

\* C14: insert appends: the list is one longer, the entries before keep their
\* places, and a name the list already holds is appended all the same.
C14_InsertAppends ==
    /\ [](\A name \in Names, pull_type \in PullType, chance \in Chances :
            LET pull == Pull(name, pull_type, chance)
                l    == insert(list, pull)
            IN  /\ Len(l) = Len(list) + 1
                /\ l[Len(l)] = pull
                /\ SubSeq(l, 1, Len(list)) = list)
    /\ [][ (last'.cmd = "add" /\ last'.msg = "")
           => /\ Len(list') = Len(list) + 1
              /\ SubSeq(list', 1, Len(list)) = list ]_vars

\* an Add of a name the list held already
C14_Witness ==
    /\ last.cmd = "add" /\ last.msg = ""
    /\ Len(list) = 2 /\ list[1].name = list[2].name

\* C15: what save_to_json wrote loads back as the PullList that was saved:
\* list, window, capacity and rare_rarity.
C15_RoundTrip ==
    file = "saved" =>
        /\ load_from_json_file.ok
        /\ load_from_json_file.value = saved
        /\ get_maigacha_list = saved

\* C16: with the selected subset in list order and select in [0, sum), the
\* pull returns the entry i with sum-before-i <= select < sum-up-to-i; every
\* entry is returned for exactly `chance` values of select.
TierSubset(l, t) == SelectSeq(l, LAMBDA pull : pull.pull_type = t)

C16_WeightedSampling ==
    /\ [][ (last'.cmd = "pull" /\ last'.msg = "Pulled")
           => LET sub == TierSubset(list, last'.pulled_type[1])
                  r   == last'.select[1]
              IN  /\ r \in 0..(Sum(sub) - 1)
                  /\ \E i \in 1..Len(sub) :
                        /\ sub[i] = last'.ret[1]
                        /\ Sum(SubSeq(sub, 1, i - 1)) <= r
                        /\ r < Sum(SubSeq(sub, 1, i)) ]_vars
    /\ [](\A t \in PullType :
            LET sub == TierSubset(list, t)
            IN  \A i \in 1..Len(sub) :
                   Cardinality({r \in 0..(Sum(sub) - 1) : walk(sub, r) = i})
                       = sub[i].chance)

\* the last of two entries of a tier, of chance 2, returned for the largest
\* select
C16_Witness ==
    /\ last.cmd = "pull" /\ last.msg = "Pulled"
    /\ LET sub == TierSubset(list, last.pulled_type[1])
       IN  /\ Len(sub) = 2 /\ sub[1] # sub[2]
           /\ sub[2].chance = 2
           /\ last.ret = <<sub[2]>>
           /\ last.select = <<Sum(sub) - 1>>

\* C17: after a pull that returned an entry, with a capacity of 1 or more,
\* the newest record of the window holds the entry's name and the tier
\* selected, which is the entry's tier.
C17_NewestRecord ==
    [][ (last'.cmd = "pull" /\ last'.msg = "Pulled" /\ size >= 1)
        => /\ history' # <<>>
           /\ history'[Len(history')][3] = last'.ret[1].name
           /\ history'[Len(history')][2] = last'.pulled_type[1]
           /\ last'.pulled_type[1] = last'.ret[1].pull_type ]_vars

\* C18: a pull leaves the list, the capacity and rare_rarity as they were.
C18_PullKeepsList ==
    [][ last'.cmd = "pull" => UNCHANGED <<list, size, rare_rarity>> ]_vars

\* a pull that returned one of two entries and recorded it
C18_Witness ==
    /\ last.cmd = "pull" /\ last.msg = "Pulled"
    /\ Len(list) = 2
    /\ history # <<>>
    /\ history[Len(history)][3] = last.ret[1].name

\* C19: Add, Remove, List and History leave the window as it was: the record
\* of a pulled entry outlives the entry.
C19_OnlyPullRecords ==
    [][ last'.cmd # "pull" => history' = history ]_vars

\* a Rare record in the window whose entry has just been removed
C19_Witness ==
    /\ last.cmd = "remove" /\ Len(last.ret) = 1
    /\ ~HasName(list, last.ret[1].name)
    /\ \E i \in 1..Len(history) :
          history[i][3] = last.ret[1].name /\ history[i][2] = "Rare"

====
